---- MODULE Spec2Model ----
(***************************************************************************)
(* A model of src/main.py, the Garmin Connect synchronisation worker:      *)
(* GarminSyncWorker.sync_garmin_data and the functions it calls, together  *)
(* with the key-value store (lastSyncTime, garth_session), the two         *)
(* database tables and the remote activity service they act on.            *)
(*                                                                         *)
(* A run is a coroutine: it gives up control only at an await, so every    *)
(* action below is the code between two awaits of one run.  Two runs (the  *)
(* scheduled one and the task a webhook detaches) interleave at those      *)
(* points.  Every remote call, key-value call and database statement may   *)
(* fail; the failure is a choice of the environment (\E ok \in BOOLEAN).   *)
(*                                                                         *)
(* An Optional value is a sequence of length at most one: None is <<>>,    *)
(* a present value v is <<v>>.  Timestamps are integers (the instants of   *)
(* the clock now); weights are integers (grams raw, hundredths of a        *)
(* kilogram once converted).                                               *)
(***************************************************************************)
EXTENDS Integers, Sequences, FiniteSets, TLC

\* ------------------------------------------------------------ constants
PAGE_SIZE == 20
MaxInitialActivities == 1500
MaxIncrementalActivities == 100

\* ---------------------------------------------------------------- bounds
\* Sync runs that may be triggered in one behaviour of a small scenario.
MaxRuns == 2
\* The last instant of the clock.
MaxClock == 3
\* The most sets of an exercise group handed to process_exercise_sets by itself.
MaxSets == 2

\* -------------------------------------------------------------- Optional
None == <<>>
Some(v) == <<v>>
Truthy(o) == o # None

RECURSIVE SumSeq(_)
SumSeq(s) == IF s = <<>> THEN 0 ELSE Head(s) + SumSeq(Tail(s))

RECURSIVE SelectSeqIdx(_, _)
\* the indexes i of 1..n, in order, with keep[i]
SelectSeqIdx(keep, n) ==
    IF n = 0 THEN <<>>
    ELSE LET rest == SelectSeqIdx(keep, n - 1)
         IN  IF keep[n] THEN Append(rest, n) ELSE rest

\* ------------------------------------------------- the remote's records
\* One raw set of an exercise group, as the exerciseSets endpoint gives it.
RawSet(reps, grams) ==
    [repetitionCount |-> reps, weight |-> grams, duration |-> None, restTime |-> None]

RawGroup(name, sets) ==
    [exerciseName |-> name, category |-> "strength", sets |-> sets]

\* A raw activity of the search endpoint: a dict whose keys may be missing
\* (None), with the set detail the exerciseSets endpoint holds for it.
RawActivity(id, type, start, reps, nsets, detail) ==
    [isDict |-> TRUE, activityId |-> id, typeKey |-> type, startTimeLocal |-> start,
     totalReps |-> reps, totalSets |-> nsets, remoteSets |-> detail]

\* An element of the response that is no dict (a JSON null).
NotADict ==
    [isDict |-> FALSE, activityId |-> None, typeKey |-> None, startTimeLocal |-> None,
     totalReps |-> None, totalSets |-> None, remoteSets |-> <<>>]

SquatDetail ==
    << RawGroup("squat", << RawSet(Some(5), Some(10000)), RawSet(Some(3), None) >>),
       RawGroup("press", << RawSet(Some(2), Some(1000)) >>) >>

Strength(id, start) ==
    RawActivity(Some(id), Some("strength_training"), Some(start), Some(10), Some(3), SquatDetail)
\* a strength activity for which the detail endpoint holds nothing
StrengthBare(id, start) ==
    RawActivity(Some(id), Some("strength_training"), Some(start), Some(10), Some(3), <<>>)
Running(id, start) ==
    RawActivity(Some(id), Some("running"), Some(start), None, None, <<>>)
Yoga(id, start) ==
    RawActivity(Some(id), Some("yoga"), Some(start), None, None, <<>>)
NoId(start) ==
    RawActivity(None, Some("running"), Some(start), None, None, <<>>)
NoStart(id) ==
    RawActivity(Some(id), Some("running"), None, None, None, <<>>)

\* --------------------------------------------------- the remote's content
\* What the search endpoint lists, newest first.  A scenario is either a
\* short list written out, or a long generated list of `total` running
\* activities of which the first `newer` start at instant 2, the next one at
\* instant 1 and the others at instant 0.
ListScenario(items) == [tag |-> "list", items |-> items, total |-> Len(items), newer |-> 0]
PagedScenario(total, newer) == [tag |-> "paged", items |-> <<>>, total |-> total, newer |-> newer]

PagedItem(i, newer) ==
    Running(100 + i, IF i <= newer THEN 2 ELSE IF i = newer + 1 THEN 1 ELSE 0)

RemoteLen(s) == s.total
RemoteItem(s, i) == IF s.tag = "list" THEN s.items[i] ELSE PagedItem(i, s.newer)

\* one strength activity with set detail and two runs
EndToEnd == ListScenario(<< Strength(1, 2), Running(2, 1), Running(3, 0) >>)

SmallScenarios ==
    { EndToEnd,
      ListScenario(<< Running(1, 2), Running(1, 2) >>),
      ListScenario(<< StrengthBare(1, 2), Yoga(2, 1) >>),
      ListScenario(<< NoId(2), NotADict >>),
      ListScenario(<< NoStart(3) >>) }

PagedScenarios ==
    { PagedScenario(20, 20), PagedScenario(45, 25), PagedScenario(120, 120),
      PagedScenario(1520, 1520) }

\* ------------------------------------------------- process_exercise_sets
\* The weights under 1000 g that end in 5 and that round(grams / 1000, 2)
\* rounds up: the double nearest to grams / 1000 lies above the tie for these
\* and below it (or on it, with an even hundredth below) for the others.
TiesRoundedUp ==
    { 5, 25, 35, 55, 65, 85, 95, 115, 135, 165, 195, 225,
      255, 265, 275, 315, 325, 335, 375, 385, 395, 405, 445, 455,
      465, 505, 515, 525, 535, 545, 555, 635, 645, 655, 665, 675,
      685, 755, 765, 775, 785, 795, 805, 875, 885, 895, 905, 915,
      925, 935 }

\* a bug: the hundredths are cut off, not rounded
TruncateKg(grams) == grams \div 10
\* round(grams / 1000, 2), in hundredths of a kilogram; a weight of 1000 g or
\* more that ends in 5 is none of the inputs and is given the lower hundredth
RoundKg(grams) ==
    LET q == grams \div 10
        r == grams % 10
    IN  IF r > 5 \/ (r = 5 /\ grams \in TiesRoundedUp) THEN q + 1 ELSE q

\* one entry of `sets`: reps defaults to 0, a missing or zero weight is None
ProcessedSet(set_data) ==
    [reps |-> IF Truthy(set_data.repetitionCount) THEN set_data.repetitionCount[1] ELSE 0,
     weight |-> IF Truthy(set_data.weight) /\ set_data.weight # Some(0)
                THEN Some(RoundKg(set_data.weight[1])) ELSE None,
     duration |-> set_data.duration,
     restTime |-> set_data.restTime]

\* a bug: a set without a weight counts its reps as volume
SetVolumeOfReps(s) == s.reps * (IF Truthy(s.weight) THEN s.weight[1] ELSE 1)
\* reps * (weight or 0)
SetVolume(s) == s.reps * (IF Truthy(s.weight) THEN s.weight[1] ELSE 0)

ProcessedGroup(exercise_set) ==
    LET sets == [i \in 1..Len(exercise_set.sets) |-> ProcessedSet(exercise_set.sets[i])]
    IN  [exerciseName |-> exercise_set.exerciseName,
         category |-> exercise_set.category,
         sets |-> sets,
         totalReps |-> SumSeq([i \in 1..Len(sets) |-> sets[i].reps]),
         totalVolume |-> SumSeq([i \in 1..Len(sets) |-> SetVolume(sets[i])])]

process_exercise_sets(exercise_sets) ==
    [g \in 1..Len(exercise_sets) |-> ProcessedGroup(exercise_sets[g])]

\* -------------------------------------------------- process_activity_data
EnduranceTypes == {"cycling", "running", "walking"}

TypeKey(activity) == activity.typeKey

BaseActivity(activity, t) ==
    [id |-> activity.activityId[1],
     name |-> "",
     type |-> IF Truthy(TypeKey(activity)) THEN TypeKey(activity)[1] ELSE "unknown",
     startTime |-> activity.startTimeLocal,
     duration |-> None, movingTime |-> None, calories |-> None,
     averageHR |-> None, maxHR |-> None, distance |-> None,
     averageSpeed |-> None, maxSpeed |-> None,
     elevationGain |-> None, elevationLoss |-> None,
     createdAt |-> t, updatedAt |-> t]

StrengthFields(activity, full) ==
    [exerciseSets |-> process_exercise_sets(full),
     totalReps |-> activity.totalReps,
     totalSets |-> activity.totalSets]

EnduranceFields ==
    [averagePower |-> None, maxPower |-> None, normalizedPower |-> None,
     trainingStressScore |-> None, averageCadence |-> None, maxCadence |-> None]

\* a change: every record carries the strength and the endurance keys
process_activity_data_all_keys(activity, full, t) ==
    (BaseActivity(activity, t) @@ StrengthFields(activity, full)) @@ EnduranceFields

\* a variant: the record has every key of the bind, None where the code sets
\* none, so that store_activity goes on to its statements
process_activity_data_with_defaults(activity, full, t) ==
    (BaseActivity(activity, t)
     @@ (IF TypeKey(activity) = Some("strength_training") /\ full # <<>>
         THEN StrengthFields(activity, full)
         ELSE [totalReps |-> None, totalSets |-> None]))
    @@ EnduranceFields
\* `full` is activity['fullExerciseSets'] (<<>> when the key is not set)
process_activity_data(activity, full, t) ==
    LET base == BaseActivity(activity, t)
        withStrength ==
            IF TypeKey(activity) = Some("strength_training") /\ full # <<>>
            THEN base @@ StrengthFields(activity, full) ELSE base
    IN  IF Truthy(TypeKey(activity)) /\ TypeKey(activity)[1] \in EnduranceTypes
        THEN withStrength @@ EnduranceFields ELSE withStrength

\* ---------------------------------------------------------- store_activity
\* a variant: the statement binds the columns every record has and no others
BindBaseKeysOnly ==
    {"id", "name", "type", "startTime", "duration", "movingTime", "calories",
     "averageHR", "maxHR", "distance", "averageSpeed", "maxSpeed", "elevationGain",
     "elevationLoss", "createdAt", "updatedAt"}
\* the keys store_activity subscripts to bind the INSERT OR REPLACE
BindKeys ==
    {"id", "name", "type", "startTime", "duration", "movingTime", "calories",
     "averageHR", "maxHR", "distance", "averageSpeed", "maxSpeed", "elevationGain",
     "elevationLoss", "averagePower", "maxPower", "normalizedPower",
     "trainingStressScore", "averageCadence", "maxCadence", "totalReps",
     "totalSets", "createdAt", "updatedAt"}

\* activity[k] raises KeyError for a key the record does not carry
BindRaisesKeyError(activity) == ~(BindKeys \subseteq DOMAIN activity)

ActivityRow(activity) == [k \in BindKeys |-> activity[k]]

\* activity.get('exerciseSets') is truthy
HasExerciseSets(activity) ==
    "exerciseSets" \in DOMAIN activity /\ activity.exerciseSets # <<>>

SetRow(activity, exercise, i) ==
    [activity_id |-> activity.id,
     exercise_name |-> exercise.exerciseName,
     category |-> exercise.category,
     set_number |-> i,
     reps |-> exercise.sets[i].reps,
     weight |-> exercise.sets[i].weight,
     duration |-> exercise.sets[i].duration,
     rest_time |-> exercise.sets[i].restTime,
     total_volume |-> SetVolume(exercise.sets[i])]

RECURSIVE SetRowsFrom(_, _)
\* the rows the nested loops insert, in order, from group g on
SetRowsFrom(activity, g) ==
    IF g > Len(activity.exerciseSets) THEN <<>>
    ELSE LET exercise == activity.exerciseSets[g]
         IN  [i \in 1..Len(exercise.sets) |-> SetRow(activity, exercise, i)]
             \o SetRowsFrom(activity, g + 1)

SetRows(activity) == SetRowsFrom(activity, 1)

\* DELETE FROM exercise_sets WHERE activity_id = ?
DeleteSetsOf(table, id) == SelectSeq(table, LAMBDA row : row.activity_id # id)

\* should_update_activity
should_update_activity == FALSE

\* ------------------------------------------------------------------ requests
\* the secret the deployment is configured with
Secret == "secret"

\* a request: the end of its url, its method, its signature header and the
\* `type` of its JSON payload
Request(url, method, signature, type) ==
    [url |-> url, method |-> method, signature |-> signature, type |-> type]

\* POST /sync with the configured signature
SyncRequests == { Request("/sync", "POST", Some(Secret), None) }

Requests ==
    { Request("/sync", "POST", s, None) : s \in {None, Some(Secret), Some("wrong")} }
    \cup { Request("/ridewithgps-webhook", "POST", s, Some(t)) :
              s \in {None, Some("wrong")},
              t \in {"activity_created", "activity_updated", "activity_deleted"} }
    \cup { Request(u, "GET", None, None) : u \in {"/sync", "/health", "/status"} }

Response(status, body, lastSync) == [status |-> status, body |-> body, lastSync |-> lastSync]

\* what on_fetch has handled last
Handled(request, response) ==
    [request |-> Some(request), response |-> response]
NoHttp == [request |-> None, response |-> None]

\* ------------------------------------------------------------------ state
VARIABLES
    creds,                \* env.GARMIN_USERNAME and env.GARMIN_PASSWORD are both set
    reliable,             \* no remote call, key-value call or database statement fails
    remote,               \* the scenario: what the search endpoint lists
    triggers,             \* sync runs that may still be triggered
    now,                  \* datetime.now()
    kv_lastSyncTime,      \* GARMIN_SYNC_KV['lastSyncTime'], Optional
    kv_garth_session,     \* GARMIN_SYNC_KV['garth_session'], Optional
    activities_table,     \* id -> row of the activities table
    exercise_sets_table,  \* rows of the exercise_sets table, in insertion order
    run,                  \* run -> the locals and position of that run's coroutine
    secrets,              \* env.GARMIN_WEBHOOK_SECRET and env.RIDEWITHGPS_API_SECRET, Optional
    http,                 \* the last request on_fetch handled and its response
    exercise_sets,        \* the argument of a call of process_exercise_sets by itself
    processed_sets        \* what that call returned, Optional

vars == << creds, reliable, remote, triggers, now, kv_lastSyncTime, kv_garth_session,
           activities_table, exercise_sets_table, run, secrets, http,
           exercise_sets, processed_sets >>

env_vars == << creds, reliable, remote, secrets >>
kv_vars == << kv_lastSyncTime, kv_garth_session >>
db_vars == << activities_table, exercise_sets_table >>
fn_vars == << exercise_sets, processed_sets >>

\* the scheduled run and the task a webhook creates
Runs == {"scheduled", "webhook"}

\* A run's locals.  The fields from `auth` on record what the run has done
\* (calls issued, writes made); the code does not read them.
IdleRun ==
    [pc |-> "idle",
     saved_session |-> None,
     last_sync_time |-> None,
     is_initial_sync |-> FALSE,
     all_activities |-> <<>>,       \* indexes into the remote's list
     start |-> 0,
     idx |-> 1,                     \* the for loop's position in all_activities
     processed_activity |-> None,
     set_rows |-> <<>>,             \* exercise_sets rows still to insert
     processed_count |-> 0,
     result |-> "none",             \* "ok": success True; "failed": success False
     auth |-> "none",               \* "resumed", "login", "failed"
     searchCalls |-> 0,
     setCalls |-> 0,
     wmReads |-> 0,
     wmWrites |-> 0,
     sessWrites |-> 0,
     dbWrites |-> 0,                \* database statements that ran
     rowWrites |-> 0,               \* of these, the writes of an activities row
     was_stored |-> FALSE,          \* the current activity's id had a row at the lookup
     failedPage |-> None,           \* the page whose search call raised
     droppedPage |-> None,          \* the first page the date filter dropped from
     event |-> None]                \* the payload type of the partner webhook's request

\* a row written before the behaviour starts, at instant 0
OldRow(id) ==
    [k \in BindKeys |->
        CASE k = "id" -> id
          [] k = "name" -> "old"
          [] k = "type" -> "strength_training"
          [] k \in {"createdAt", "updatedAt"} -> 0
          [] OTHER -> None]

OldSetRow(id) ==
    [activity_id |-> id, exercise_name |-> "old", category |-> "strength",
     set_number |-> 1, reps |-> 1, weight |-> None, duration |-> None,
     rest_time |-> None, total_volume |-> 0]

EmptyTable == [id \in {} |-> None]

EmptyDb == activities_table = EmptyTable /\ exercise_sets_table = <<>>
\* activity 1 was stored, with one set row, before the behaviour starts
StoredDb == activities_table = (1 :> OldRow(1)) /\ exercise_sets_table = << OldSetRow(1) >>

\* nothing listed remotely: every state of the credentials and the key-value store
InitAuth ==
    /\ reliable = FALSE
    /\ remote = ListScenario(<< >>)
    /\ creds \in BOOLEAN
    /\ kv_garth_session \in {None, Some(0)}
    /\ kv_lastSyncTime \in {None, Some(1)}
    /\ EmptyDb
    /\ triggers = MaxRuns
    /\ now = 2

\* a short list, first or incremental sync, over an empty or a used database
InitSmall ==
    /\ reliable = FALSE
    /\ remote \in SmallScenarios
    /\ creds = TRUE
    /\ kv_garth_session = Some(0)
    /\ kv_lastSyncTime \in {None, Some(1)}
    /\ EmptyDb \/ StoredDb
    /\ triggers = MaxRuns
    /\ now = 2

\* a list of several pages, synced by one run
InitPaged ==
    /\ reliable = FALSE
    /\ remote \in PagedScenarios
    /\ creds = TRUE
    /\ kv_garth_session = None
    /\ kv_lastSyncTime \in {None, Some(1)}
    /\ EmptyDb
    /\ triggers = 1
    /\ now = MaxClock

\* nothing fails: the end-to-end scenario (a first sync of three activities),
\* or a strength activity without set detail and a yoga session
InitReliable ==
    /\ reliable = TRUE
    /\ remote \in {EndToEnd, ListScenario(<< StrengthBare(1, 2), Yoga(2, 1) >>)}
    /\ creds = TRUE
    /\ kv_garth_session \in {None, Some(0)}
    /\ kv_lastSyncTime = None
    /\ EmptyDb
    /\ triggers = MaxRuns
    /\ now = 2

\* process_exercise_sets is not called by itself
NoCall == exercise_sets = <<>> /\ processed_sets = None

\* both secrets are configured and no request has been handled
InitEnv ==
    /\ run = [r \in Runs |-> IdleRun]
    /\ secrets = [webhook |-> Some(Secret), ridewithgps |-> Some(Secret)]
    /\ http = NoHttp
    /\ NoCall

Init ==
    /\ InitAuth \/ InitSmall \/ InitPaged \/ InitReliable
    /\ InitEnv

\* one new activity to sync; the two secrets are configured, or neither is
InitHttp ==
    /\ reliable = FALSE
    /\ remote = ListScenario(<< Running(1, 2) >>)
    /\ creds = TRUE
    /\ kv_garth_session = Some(0)
    /\ kv_lastSyncTime = None
    /\ EmptyDb
    /\ triggers = MaxRuns
    /\ now = MaxClock
    /\ run = [r \in Runs |-> IdleRun]
    /\ secrets \in {[webhook |-> s, ridewithgps |-> s] : s \in {None, Some(Secret)}}
    /\ http = NoHttp
    /\ NoCall

\* ---------------------------------------------------------------- triggers
\* the outcomes of a call that may fail
Outcomes == IF reliable THEN {TRUE} ELSE BOOLEAN

\* a coroutine starts in slot r at position pc (a slot holds one at a time)
StartRun(r, pc, event) ==
    /\ triggers > 0
    /\ run[r].pc \in {"idle", "done"}
    /\ triggers' = triggers - 1
    /\ run' = [run EXCEPT ![r] = [IdleRun EXCEPT !.pc = pc, !.event = event]]

\* the cron event: await self.sync_garmin_data(env)
on_scheduled ==
    /\ StartRun("scheduled", "auth", None)
    /\ UNCHANGED << env_vars, fn_vars, http, now, kv_vars, db_vars >>

\* asyncio.create_task(coro): the task is scheduled and the caller goes on
create_task(pc, event) == StartRun("webhook", pc, event)

\* `signature == webhook_secret or not webhook_secret`
verify_webhook_signature(signature, webhook_secret) ==
    signature = webhook_secret \/ ~Truthy(webhook_secret)

\* `bool(signature and api_secret)`
verify_ridewithgps_signature(signature, api_secret) ==
    Truthy(signature) /\ Truthy(api_secret)

\* a bug: on_fetch awaits the run, so that no response is produced yet
SyncAwaited == None
\* the response of an authorized POST /sync (its timestamp is left out)
SyncAccepted == Some(Response(200, "accepted", None))

\* on_fetch returns response to request, changing nothing else
Reply(request, response) ==
    /\ http' = Handled(request, response)
    /\ UNCHANGED << env_vars, fn_vars, triggers, now, kv_vars, db_vars, run >>

\* on_fetch, from the request to the response (the one await on the way,
\* the get of /status, changes nothing)
on_fetch(request) ==
    IF request.url = "/sync" /\ request.method = "POST"
    THEN IF ~verify_webhook_signature(request.signature, secrets.webhook)
         THEN Reply(request, Some(Response(401, "Unauthorized", None)))
         ELSE /\ create_task("auth", None)
              /\ http' = Handled(request, SyncAccepted)
              /\ UNCHANGED << env_vars, fn_vars, now, kv_vars, db_vars >>
    ELSE IF request.url = "/ridewithgps-webhook" /\ request.method = "POST"
    THEN IF ~verify_ridewithgps_signature(request.signature, secrets.ridewithgps)
         THEN Reply(request, Some(Response(401, "Unauthorized", None)))
         ELSE /\ create_task("webhook_json", request.type)
              /\ http' = Handled(request, Some(Response(200, "OK", None)))
              /\ UNCHANGED << env_vars, fn_vars, now, kv_vars, db_vars >>
    ELSE IF request.url = "/health"
    THEN Reply(request, Some(Response(200, "OK", None)))
    ELSE IF request.url = "/status"
    THEN \E ok \in Outcomes :
            \* the get raises: on_fetch raises and the runtime answers
            Reply(request, IF ok THEN Some(Response(200, "lastSync", kv_lastSyncTime))
                                 ELSE Some(Response(500, "error", None)))
    ELSE Reply(request, Some(Response(404, "Not Found", None)))

\* a bug: every event of the partner triggers a sync
EveryEventTriggersSync(type) == TRUE
\* `webhook_data.get('type') in ['activity_created', 'activity_updated']`
EventTriggersSync(type) ==
    Truthy(type) /\ type[1] \in {"activity_created", "activity_updated"}

\* the task of the partner webhook: await request.json(), the test of the
\* event type, and the call of sync_garmin_data (whose steps follow)
process_ridewithgps_webhook(r) ==
    /\ run[r].pc = "webhook_json"
    /\ \E ok \in Outcomes :
        run' = [run EXCEPT ![r] =
                  IF ~ok THEN [@ EXCEPT !.pc = "done", !.result = "raised"]
                  ELSE IF EventTriggersSync(@.event) THEN [@ EXCEPT !.pc = "auth"]
                  ELSE [@ EXCEPT !.pc = "done"]]
    /\ UNCHANGED << env_vars, fn_vars, http, triggers, now, kv_vars, db_vars >>

\* success False: the except clause of sync_garmin_data
RunFailed(rr) == [rr EXCEPT !.pc = "done", !.result = "failed"]

\* a bug: the result of authenticate_garmin is not tested
AuthFailureIgnored(rr) == [rr EXCEPT !.auth = "failed", !.pc = "read_wm"]
\* authenticate_garmin returned False: `raise Exception('Failed to authenticate ...')`
AuthFailed(rr) == RunFailed([rr EXCEPT !.auth = "failed"])

\* ------------------------------------------------------ authenticate_garmin
\* up to the await of GARMIN_SYNC_KV.get('garth_session')
authenticate_garmin_resume(r) ==
    /\ run[r].pc = "auth"
    /\ \E ok \in Outcomes :
        run' = [run EXCEPT ![r] =
                  IF ~creds
                  THEN AuthFailed(@)
                  ELSE [@ EXCEPT !.pc = "auth_login",
                                 !.saved_session = IF ok THEN kv_garth_session ELSE None]]
    /\ UNCHANGED << env_vars, fn_vars, http, triggers, now, kv_vars, db_vars >>

ProbeOutcomes == IF reliable THEN {"valid"} ELSE {"valid", "expired", "error"}

\* json.dumps(garth.dump()) after a fresh login (the saved blob of Init is 0)
FreshSession == 1

\* from the resume test to the return: the probe of a saved session, else the
\* fresh login and the await of GARMIN_SYNC_KV.put('garth_session', ...).
\* persistOnResume is FALSE in the code: the resumed path returns at once.
AuthLoginStep(r, persistOnResume) ==
    /\ run[r].pc = "auth_login"
    /\ \E probe \in ProbeOutcomes, loginOk \in Outcomes, putOk \in Outcomes :
        IF Truthy(run[r].saved_session) /\ probe = "valid"
        THEN /\ run' = [run EXCEPT ![r] =
                          [@ EXCEPT !.pc = "read_wm", !.auth = "resumed",
                                    !.sessWrites = IF persistOnResume THEN @ + 1 ELSE @]]
             /\ kv_garth_session' =
                   IF persistOnResume THEN run[r].saved_session ELSE kv_garth_session
        ELSE IF loginOk /\ putOk
        THEN /\ kv_garth_session' = Some(FreshSession)
             /\ run' = [run EXCEPT ![r] =
                          [@ EXCEPT !.pc = "read_wm", !.auth = "login",
                                    !.sessWrites = @ + 1]]
        ELSE /\ run' = [run EXCEPT ![r] = AuthFailed(@)]
             /\ UNCHANGED kv_garth_session
    /\ UNCHANGED << env_vars, fn_vars, http, triggers, now, kv_lastSyncTime, db_vars >>

\* a bug: the resumed session is dumped and persisted again
authenticate_garmin_persists_resumed(r) == AuthLoginStep(r, TRUE)
authenticate_garmin_login(r) == AuthLoginStep(r, FALSE)

\* --------------------------------------------------------- sync_garmin_data
\* last_sync_time = await env.GARMIN_SYNC_KV.get('lastSyncTime')
sync_garmin_data_read(r) ==
    /\ run[r].pc = "read_wm"
    /\ \E ok \in Outcomes :
        run' = [run EXCEPT ![r] =
                  IF ok
                  THEN [@ EXCEPT !.pc = "fetch",
                                 !.wmReads = @ + 1,
                                 !.last_sync_time = kv_lastSyncTime,
                                 !.is_initial_sync = ~Truthy(kv_lastSyncTime)]
                  ELSE RunFailed([@ EXCEPT !.wmReads = @ + 1])]
    /\ UNCHANGED << env_vars, fn_vars, http, triggers, now, kv_vars, db_vars >>

\* ---------------------------------------------------------- fetch_activities
MaxActivities(is_initial_sync) ==
    IF is_initial_sync THEN MaxInitialActivities ELSE MaxIncrementalActivities

\* the search endpoint's answer to (limit, start): indexes into its list
SearchResponse(limit, start) ==
    LET last == IF start + limit < RemoteLen(remote) THEN start + limit ELSE RemoteLen(remote)
    IN  [i \in 1..(IF last > start THEN last - start ELSE 0) |-> start + i]

\* datetime.fromisoformat(activity['startTimeLocal']...) raises
StartTimeRaises(activity) == ~activity.isDict \/ ~Truthy(activity.startTimeLocal)

\* a bug: an activity that starts at the watermark is kept
IsAtOrAfter(startTime, last_sync_date) == startTime >= last_sync_date
\* the comparison of the date filter
IsAfter(startTime, last_sync_date) == startTime > last_sync_date

\* the list comprehension of the date filter
FilterByDate(response, last_sync_date) ==
    LET keep == [i \in 1..Len(response) |->
                    IsAfter(RemoteItem(remote, response[i]).startTimeLocal[1], last_sync_date)]
        kept == SelectSeqIdx(keep, Len(response))
    IN  [j \in 1..Len(kept) |-> response[kept[j]]]

\* a bug: the while loop does not test the ceiling
FetchContinuesUnbounded(n_all, n_response, is_initial_sync) == n_response = PAGE_SIZE
\* the loop goes round again
FetchContinues(n_all, n_response, is_initial_sync) ==
    n_response = PAGE_SIZE /\ n_all < MaxActivities(is_initial_sync)

\* a bug: the except clause of the loop returns an empty list
OnFetchErrorDropsAll(rr, page) ==
    [rr EXCEPT !.failedPage = Some(page), !.all_activities = <<>>, !.pc = "write_wm"]

\* fetch_activities returns: the for loop of process_and_store_activities is next
FetchReturns(rr) ==
    [rr EXCEPT !.pc = IF rr.all_activities = <<>> THEN "write_wm" ELSE "loop", !.idx = 1]

\* the search call raised: the except clause of the loop prints and breaks
OnFetchError(rr, page) == FetchReturns([rr EXCEPT !.failedPage = Some(page)])

\* one round of the while loop, from the search call to the sleep
fetch_activities(r) ==
    /\ run[r].pc = "fetch"
    /\ \E ok \in Outcomes :
        LET rr == [run[r] EXCEPT !.searchCalls = @ + 1]
            page == rr.start \div PAGE_SIZE
            response == SearchResponse(PAGE_SIZE, rr.start)
            filtering == Truthy(rr.last_sync_time) /\ ~rr.is_initial_sync
            raises == filtering /\ \E i \in 1..Len(response) :
                                      StartTimeRaises(RemoteItem(remote, response[i]))
            filtered == IF filtering /\ ~raises
                        THEN FilterByDate(response, rr.last_sync_time[1])
                        ELSE response
            all == rr.all_activities \o filtered
        IN  run' = [run EXCEPT ![r] =
              IF ~ok THEN OnFetchError(rr, page)
              ELSE IF response = <<>> \/ raises THEN FetchReturns(rr)
              ELSE IF Len(filtered) < Len(response)
              THEN FetchReturns([rr EXCEPT !.all_activities = all,
                                           !.droppedPage = Some(page)])
              ELSE IF FetchContinues(Len(all), Len(response), rr.is_initial_sync)
              THEN [rr EXCEPT !.all_activities = all, !.start = @ + PAGE_SIZE]
              ELSE FetchReturns([rr EXCEPT !.all_activities = all,
                                           !.start = @ + PAGE_SIZE])]
    /\ UNCHANGED << env_vars, fn_vars, http, triggers, now, kv_vars, db_vars >>

\* ----------------------------------------------- process_and_store_activities
\* the activity the for loop is at
Current(rr) == RemoteItem(remote, rr.all_activities[rr.idx])

\* a bug: an activity that was skipped, or whose storing raised, is counted
NextActivityCounted(rr) ==
    [rr EXCEPT !.pc = IF rr.idx < Len(rr.all_activities) THEN "loop" ELSE "write_wm",
               !.idx = @ + 1, !.processed_activity = None, !.set_rows = <<>>,
               !.was_stored = FALSE, !.processed_count = @ + 1]
\* the except clause of the loop body (or `continue`): on to the next activity
NextActivity(rr) ==
    [rr EXCEPT !.pc = IF rr.idx < Len(rr.all_activities) THEN "loop" ELSE "write_wm",
               !.idx = @ + 1, !.processed_activity = None, !.set_rows = <<>>,
               !.was_stored = FALSE]

\* store_activity returned: processed_count += 1
Stored(rr) == NextActivity([rr EXCEPT !.processed_count = @ + 1])

\* get_activity_by_id: the row's id, None when there is none or the query raises
get_activity_by_id(activity_id, ok) ==
    IF ok /\ activity_id \in DOMAIN activities_table THEN Some(activity_id) ELSE None

\* `if existing and not self.should_update_activity(existing, activity): continue`
Skips(existing) == Truthy(existing) /\ ~should_update_activity

\* the head of the loop body, up to the await of get_activity_by_id and the
\* test of its result (the loop's end, the return of processed_count, is
\* part of the step that ends the last activity)
process_and_store_activities(r) ==
    /\ run[r].pc = "loop"
    /\ \E ok \in Outcomes :
        LET rr == run[r] IN
        run' = [run EXCEPT ![r] =
              \* activity['activityId'] raises TypeError and, in the except
              \* clause, activity.get raises AttributeError, which escapes
              IF ~Current(rr).isDict THEN RunFailed(rr)
              \* KeyError, caught by the except clause
              ELSE IF ~Truthy(Current(rr).activityId) THEN NextActivity(rr)
              ELSE IF Skips(get_activity_by_id(Current(rr).activityId[1], ok))
              THEN NextActivity(rr)
              ELSE [rr EXCEPT !.pc = "store",
                              !.was_stored = Current(rr).activityId[1] \in DOMAIN activities_table]]
    /\ UNCHANGED << env_vars, fn_vars, http, triggers, now, kv_vars, db_vars >>

\* fetch_activity_exercise_sets: [] when the call raises
fetch_activity_exercise_sets(activity, ok) ==
    IF ok THEN activity.remoteSets ELSE <<>>

IsStrength(activity) == TypeKey(activity) = Some("strength_training")

\* the rest of the loop body: enrichment, process_activity_data and
\* store_activity, one database statement (one await) a step
store_activity(r) ==
    /\ run[r].pc \in {"store", "store_delete", "store_set"}
    /\ \E setsOk \in (IF run[r].pc = "store" /\ IsStrength(Current(run[r]))
                      THEN Outcomes ELSE {TRUE}),
          dbOk \in Outcomes :
        LET rr == run[r]
            activity == Current(rr)
            full == IF IsStrength(activity)
                    THEN fetch_activity_exercise_sets(activity, setsOk) ELSE <<>>
            processed == process_activity_data(activity, full, now)
            called == [rr EXCEPT !.setCalls = IF IsStrength(activity) THEN @ + 1 ELSE @]
        IN
        CASE rr.pc = "store" ->
               IF BindRaisesKeyError(processed) \/ ~dbOk
               THEN /\ run' = [run EXCEPT ![r] = NextActivity(called)]
                    /\ UNCHANGED db_vars
               ELSE /\ activities_table' =
                          [id \in DOMAIN activities_table \cup {processed.id} |->
                              IF id = processed.id THEN ActivityRow(processed)
                              ELSE activities_table[id]]
                    /\ UNCHANGED exercise_sets_table
                    /\ run' = [run EXCEPT ![r] =
                          IF HasExerciseSets(processed)
                          THEN [called EXCEPT !.pc = "store_delete",
                                              !.dbWrites = @ + 1,
                                              !.rowWrites = @ + 1,
                                              !.processed_activity = Some(processed)]
                          ELSE Stored([called EXCEPT !.dbWrites = @ + 1,
                                                     !.rowWrites = @ + 1])]
          [] rr.pc = "store_delete" ->
               IF ~dbOk
               THEN /\ run' = [run EXCEPT ![r] = NextActivity(rr)]
                    /\ UNCHANGED db_vars
               ELSE /\ exercise_sets_table' =
                          DeleteSetsOf(exercise_sets_table, rr.processed_activity[1].id)
                    /\ UNCHANGED activities_table
                    /\ run' = [run EXCEPT ![r] =
                          LET rows == SetRows(rr.processed_activity[1])
                              done == [rr EXCEPT !.dbWrites = @ + 1]
                          IN  IF rows = <<>> THEN Stored(done)
                              ELSE [done EXCEPT !.pc = "store_set", !.set_rows = rows]]
          [] rr.pc = "store_set" ->
               IF ~dbOk
               THEN /\ run' = [run EXCEPT ![r] = NextActivity(rr)]
                    /\ UNCHANGED db_vars
               ELSE /\ exercise_sets_table' = Append(exercise_sets_table, Head(rr.set_rows))
                    /\ UNCHANGED activities_table
                    /\ run' = [run EXCEPT ![r] =
                          LET done == [rr EXCEPT !.dbWrites = @ + 1,
                                                 !.set_rows = Tail(@)]
                          IN  IF done.set_rows = <<>> THEN Stored(done) ELSE done]
    /\ UNCHANGED << env_vars, fn_vars, http, triggers, now, kv_vars >>

\* a bug: the watermark is the start of the newest activity fetched
NewestFetched(rr) ==
    IF rr.all_activities # <<>> /\ Truthy(RemoteItem(remote, rr.all_activities[1]).startTimeLocal)
    THEN RemoteItem(remote, rr.all_activities[1]).startTimeLocal[1]
    ELSE 0
\* the value put under 'lastSyncTime': datetime.now().isoformat()
NewWatermark(rr) == now

\* await env.GARMIN_SYNC_KV.put('lastSyncTime', ...) and the return
sync_garmin_data_write(r) ==
    /\ run[r].pc = "write_wm"
    /\ \E ok \in Outcomes :
        IF ok
        THEN /\ kv_lastSyncTime' = Some(NewWatermark(run[r]))
             /\ run' = [run EXCEPT ![r] =
                          [@ EXCEPT !.pc = "done", !.result = "ok", !.wmWrites = @ + 1]]
        ELSE /\ UNCHANGED kv_lastSyncTime
             /\ run' = [run EXCEPT ![r] = RunFailed(@)]
    /\ UNCHANGED << env_vars, fn_vars, http, triggers, now, kv_garth_session, db_vars >>

\* -------------------------------------------------------------------- clock
Tick ==
    /\ now < MaxClock
    /\ now' = now + 1
    /\ UNCHANGED << env_vars, fn_vars, http, triggers, kv_vars, db_vars, run >>

\* the steps of the sync runs
RunStep ==
    \/ \E r \in Runs : authenticate_garmin_resume(r)
    \/ \E r \in Runs : authenticate_garmin_login(r)
    \/ \E r \in Runs : sync_garmin_data_read(r)
    \/ \E r \in Runs : fetch_activities(r)
    \/ \E r \in Runs : process_and_store_activities(r)
    \/ \E r \in Runs : store_activity(r)
    \/ \E r \in Runs : sync_garmin_data_write(r)

\* the cron event and the authorized POST /sync as the triggers
Next ==
    \/ on_scheduled
    \/ \E request \in SyncRequests : on_fetch(request)
    \/ RunStep
    \/ Tick

Spec == Init /\ [][Next]_vars

\* every request as a trigger
NextHttp ==
    \/ on_scheduled
    \/ \E request \in Requests : on_fetch(request)
    \/ \E r \in Runs : process_ridewithgps_webhook(r)
    \/ RunStep

SpecHttp == InitHttp /\ [][NextHttp]_vars

\* ------------------------------------------- process_exercise_sets by itself
\* the repetitionCount and the weight (grams) of the raw sets drawn
RawReps == {None, Some(0), Some(3), Some(5)}
RawGrams == {None, Some(0), Some(4), Some(5), Some(15), Some(125), Some(1000),
             Some(1006), Some(10000)}
RawSets == {RawSet(reps, grams) : reps \in RawReps, grams \in RawGrams}

\* the lists of up to n raw sets
RawSetLists(n) == UNION {[1..k -> RawSets] : k \in 0..n}

\* the arguments drawn: one group of up to MaxSets sets, and the two groups
\* of SquatDetail
ExerciseSetsInputs ==
    {<< RawGroup("squat", sets) >> : sets \in RawSetLists(MaxSets)} \cup {SquatDetail}

InitSets ==
    /\ exercise_sets \in ExerciseSetsInputs
    /\ processed_sets = None
    /\ reliable = TRUE
    /\ remote = ListScenario(<< >>)
    /\ creds = TRUE
    /\ kv_garth_session = None
    /\ kv_lastSyncTime = None
    /\ EmptyDb
    /\ triggers = 0
    /\ now = MaxClock
    /\ run = [r \in Runs |-> IdleRun]
    /\ secrets = [webhook |-> Some(Secret), ridewithgps |-> Some(Secret)]
    /\ http = NoHttp

\* the call: processed_sets = self.process_exercise_sets(exercise_sets)
process_exercise_sets_call ==
    /\ processed_sets = None
    /\ processed_sets' = Some(process_exercise_sets(exercise_sets))
    /\ UNCHANGED << env_vars, exercise_sets, http, triggers, now, kv_vars, db_vars, run >>

SpecSets == InitSets /\ [][process_exercise_sets_call]_vars

\* ==================================================================== claims
StorePcs == {"store", "store_delete", "store_set"}
\* the run has read the watermark: is_initial_sync and last_sync_time are set
PastRead(rr) == rr.pc \in {"fetch", "loop", "write_wm"} \cup StorePcs \/ rr.searchCalls > 0
Authenticated(rr) == rr.auth \in {"resumed", "login"}
Filtering(rr) == Truthy(rr.last_sync_time) /\ ~rr.is_initial_sync
StartOf(i) == RemoteItem(remote, i).startTimeLocal[1]
SetRowsOf(table, id) == SelectSeq(table, LAMBDA row : row.activity_id = id)
\* the first n activities the remote lists, in the order it lists them
Listed(n) == [i \in 1..n |-> i]

\* C1: a first sync of three activities (one strength activity with set
\* detail, two runs) in which nothing fails returns activitiesProcessed = 3
\* and leaves three activities rows, exercise_sets rows for the strength
\* activity only, and the watermark set.
C1_InitialSyncStoresAll ==
    \A r \in Runs :
        (reliable /\ remote = EndToEnd /\ triggers = MaxRuns - 1 /\ run[r].pc = "done")
        => /\ run[r].result = "ok"
           /\ run[r].processed_count = 3
           /\ Cardinality(DOMAIN activities_table) = 3
           /\ exercise_sets_table # <<>>
           /\ \A i \in 1..Len(exercise_sets_table) : exercise_sets_table[i].activity_id = 1
           /\ Truthy(kv_lastSyncTime)

\* the run is at an activity whose id has a row: before the lookup, or after
\* it (the lookup may have raised, so that the activity goes on to be stored)
ProcessingStored(rr) ==
    \/ /\ rr.pc = "loop"
       /\ Current(rr).isDict
       /\ Truthy(Current(rr).activityId)
       /\ Current(rr).activityId[1] \in DOMAIN activities_table
    \/ rr.pc \in StorePcs /\ rr.was_stored

\* C2: no step a run takes on a fetched activity whose id is already stored
\* changes that id's activities row or its exercise_sets rows, or counts the
\* activity in processed_count.
C2_StoredActivityIsSkipped ==
    [][\A r \in Runs :
          (run'[r] # run[r] /\ ProcessingStored(run[r]))
          => LET id == Current(run[r]).activityId[1]
             IN  /\ id \in DOMAIN activities_table'
                 /\ activities_table'[id] = activities_table[id]
                 /\ SetRowsOf(exercise_sets_table', id) = SetRowsOf(exercise_sets_table, id)
                 /\ run'[r].processed_count = run[r].processed_count]_vars

\* a run has finished over a list that names the stored activity 1 twice
C2_Witness ==
    \E r \in Runs :
        /\ run[r].pc = "done" /\ run[r].result = "ok"
        /\ Len(run[r].all_activities) = 2
        /\ \A i \in 1..2 : RemoteItem(remote, run[r].all_activities[i]).activityId = Some(1)
        /\ 1 \in DOMAIN activities_table
        /\ run[r].processed_count = 0

\* C3: a finished run has read the watermark once and written it exactly
\* once if authentication succeeded, and has not written it otherwise.
C3_WatermarkWrittenOnceAfterAuth ==
    \A r \in Runs :
        run[r].pc = "done"
        => /\ Authenticated(run[r]) => run[r].wmReads = 1 /\ run[r].wmWrites = 1
           /\ run[r].auth = "failed" => run[r].wmWrites = 0

\* C4: a run whose authentication failed has ended with success False, and
\* has issued no search call, no exercise-set call and no database write
\* (nor read the watermark).
C4_AuthFailureAborts ==
    \A r \in Runs :
        run[r].auth = "failed"
        => /\ run[r].pc = "done" /\ run[r].result = "failed"
           /\ run[r].searchCalls = 0 /\ run[r].setCalls = 0
           /\ run[r].dbWrites = 0 /\ run[r].wmReads = 0 /\ run[r].wmWrites = 0

\* authentication has failed with credentials present (the login or the
\* put of the session raised)
C4_Witness == \E r \in Runs : run[r].auth = "failed" /\ creds

\* C5: every finished run in which authentication succeeded returns
\* success True.
C5_OnlyAuthFailureIsFatal ==
    \A r \in Runs :
        (run[r].pc = "done" /\ Authenticated(run[r])) => run[r].result = "ok"

\* C6: the stored watermark, once set, stays set and never decreases.
C6_WatermarkMonotonic ==
    [][Truthy(kv_lastSyncTime)
       => Truthy(kv_lastSyncTime') /\ kv_lastSyncTime'[1] >= kv_lastSyncTime[1]]_vars

\* two runs overlapped (both read the watermark before either wrote it, so
\* both were first syncs) and both have written it
C6_Witness ==
    /\ \A r \in Runs :
          /\ run[r].pc = "done" /\ run[r].wmWrites = 1
          /\ run[r].wmReads = 1 /\ run[r].is_initial_sync
    /\ Truthy(kv_lastSyncTime)

\* C7: fetch_activities issues at most ceiling / PAGE_SIZE search calls and
\* returns at most ceiling activities (ceiling 100 with a watermark, 1500
\* without); and when it has returned after pages that were all full and
\* kept whole, it has issued exactly ceiling / PAGE_SIZE calls.
C7_PaginationCeiling ==
    \A r \in Runs :
        LET rr == run[r]
            ceiling == MaxActivities(rr.is_initial_sync)
        IN  PastRead(rr)
            => /\ rr.searchCalls * PAGE_SIZE <= ceiling
               /\ Len(rr.all_activities) <= ceiling
               /\ (/\ rr.pc # "fetch" /\ rr.searchCalls > 0
                   /\ Len(rr.all_activities) = rr.searchCalls * PAGE_SIZE)
                  => rr.searchCalls * PAGE_SIZE = ceiling

\* a first sync has stopped at the ceiling, the remote listing more
C7_Witness ==
    \E r \in Runs :
        /\ run[r].is_initial_sync /\ run[r].pc # "fetch"
        /\ run[r].searchCalls = MaxInitialActivities \div PAGE_SIZE
        /\ Len(run[r].all_activities) = MaxInitialActivities
        /\ RemoteLen(remote) > MaxInitialActivities

\* the activities among the first n listed that start after t, in order
AfterAmong(n, t) ==
    LET kept == SelectSeqIdx([i \in 1..n |-> StartOf(i) > t], n)
    IN  [j \in 1..Len(kept) |-> kept[j]]

Min(a, b) == IF a < b THEN a ELSE b

\* C8: with a watermark T every activity fetched starts strictly after T;
\* once a page has had an activity dropped, fetch_activities has returned,
\* that page was the last one requested, and what it returns is exactly the
\* after-T activities of the pages up to it; without a watermark nothing is
\* dropped.
C8_IncrementalCutoff ==
    \A r \in Runs :
        LET rr == run[r] IN
        PastRead(rr)
        => /\ Filtering(rr)
              => \A i \in 1..Len(rr.all_activities) :
                    StartOf(rr.all_activities[i]) > rr.last_sync_time[1]
           /\ Truthy(rr.droppedPage)
              => /\ Filtering(rr)
                 /\ rr.pc # "fetch"
                 /\ rr.searchCalls = rr.droppedPage[1] + 1
                 /\ rr.all_activities =
                       AfterAmong(Min((rr.droppedPage[1] + 1) * PAGE_SIZE, RemoteLen(remote)),
                                  rr.last_sync_time[1])
           /\ rr.is_initial_sync
              => rr.all_activities = Listed(Len(rr.all_activities))

\* the second page mixed activities after the watermark with one at it and
\* older ones: 25 activities are returned
C8_Witness ==
    \E r \in Runs :
        /\ run[r].droppedPage = Some(1) /\ Len(run[r].all_activities) = 25
        /\ StartOf(26) = run[r].last_sync_time[1]

\* C9: when the search call of page k raises, fetch_activities returns (the
\* run goes on to the activities, or to the watermark when there are none)
\* with the activities of pages 0..k-1 as they were listed, and no further
\* search call is issued.
C9_PageFailureKeepsPrefix ==
    /\ [](\A r \in Runs :
            Truthy(run[r].failedPage)
            => /\ run[r].pc # "fetch"
               /\ run[r].searchCalls = run[r].failedPage[1] + 1
               /\ run[r].all_activities = Listed(run[r].failedPage[1] * PAGE_SIZE))
    /\ [][\A r \in Runs :
            (~Truthy(run[r].failedPage) /\ Truthy(run'[r].failedPage))
            => /\ run'[r].result = "none"
               /\ run'[r].pc = IF run[r].all_activities = <<>> THEN "write_wm" ELSE "loop"]_vars

\* the search call of the third page raised and the run went on to store
\* the 40 activities of the first two
C9_Witness ==
    \E r \in Runs :
        /\ run[r].failedPage = Some(2)
        /\ Len(run[r].all_activities) = 2 * PAGE_SIZE
        /\ run[r].pc = "store" /\ run[r].idx = 2 * PAGE_SIZE

\* C10: a run writes the session blob at most once, and only on a fresh
\* login that succeeded; the step that resumes a session, and the step in
\* which the login fails, leave the blob as it was.
C10_SessionWrittenOnFreshLoginOnly ==
    /\ [](\A r \in Runs :
            /\ run[r].sessWrites <= 1
            /\ run[r].sessWrites = 1 => run[r].auth = "login")
    /\ [][\A r \in Runs :
            (run[r].pc = "auth_login" /\ run'[r].auth \in {"resumed", "failed"})
            => /\ kv_garth_session' = kv_garth_session
               /\ run'[r].sessWrites = run[r].sessWrites]_vars

\* one run resumed the saved session while the other logged in afresh and
\* replaced it
C10_Witness ==
    \E r, q \in Runs :
        /\ run[r].auth = "resumed" /\ run[r].sessWrites = 0
        /\ run[q].auth = "login" /\ run[q].sessWrites = 1
        /\ kv_garth_session = Some(FreshSession)

\* C11: authentication resumes a stored session or logs in afresh: a run that
\* resumes makes no fresh login (it writes no session), and the step at which
\* a run's authentication fails comes after the stored blob was looked up and
\* could not be resumed (none stored, or its probe failed): with a blob
\* stored, authentication never fails before the resume was attempted.
C11_ResumeOrLogin ==
    [][\A r \in Runs :
          /\ (run[r].auth = "none" /\ run'[r].auth = "resumed")
             => /\ Truthy(run[r].saved_session)
                /\ run'[r].sessWrites = 0
                /\ kv_garth_session' = kv_garth_session
          /\ (run[r].auth = "none" /\ run'[r].auth = "failed")
             => run[r].pc = "auth_login" \/ ~Truthy(kv_garth_session)]_vars

\* the request is a POST to /sync, or to the partner webhook
IsSyncPost(request) == request.url = "/sync" /\ request.method = "POST"
IsPartnerPost(request) == request.url = "/ridewithgps-webhook" /\ request.method = "POST"
Pending(rr) == rr.pc \notin {"idle", "done"}

\* C12: the step in which an authorized POST /sync creates the run also
\* produces the acknowledgement, with the run created and not yet begun
\* (no result, nothing written); no later step of a run, whether it ends in
\* success or failure or never ends, changes a response; and what /status
\* answers is the stored watermark.
C12_DetachedTrigger ==
    [][/\ (~Pending(run["webhook"]) /\ run'["webhook"].pc = "auth")
          => /\ Truthy(http'.request) /\ IsSyncPost(http'.request[1])
             /\ http'.response = Some(Response(200, "accepted", None))
             /\ run'["webhook"].result = "none" /\ run'["webhook"].auth = "none"
             /\ UNCHANGED << kv_vars, db_vars >>
       /\ \A r \in Runs : (Pending(run[r]) /\ run'[r] # run[r]) => http' = http
       /\ (/\ http' # http
           /\ http'.request = Some(Request("/status", "GET", None, None))
           /\ http'.response[1].status = 200)
          => http'.response[1].lastSync = kv_lastSyncTime]_vars

\* the acknowledgement of POST /sync stands while the run it started has
\* ended in failure
C12_Witness ==
    /\ http = Handled(Request("/sync", "POST", Some(Secret), None),
                      Some(Response(200, "accepted", None)))
    /\ run["webhook"].pc = "done" /\ run["webhook"].result = "failed"
    /\ run["webhook"].event = None

\* the request passed the signature check of its endpoint
PassedSync(request) ==
    IsSyncPost(request) /\ verify_webhook_signature(request.signature, secrets.webhook)
PassedPartner(request) ==
    IsPartnerPost(request)
    /\ verify_ridewithgps_signature(request.signature, secrets.ridewithgps)
\* rejected as unauthorized, or a GET of /health or /status
StartsNothing(request) ==
    \/ IsSyncPost(request) /\ ~PassedSync(request)
    \/ IsPartnerPost(request) /\ ~PassedPartner(request)
    \/ request.method = "GET" /\ request.url \in {"/health", "/status"}
SyncEvents == {Some("activity_created"), Some("activity_updated")}

\* C13: a sync run begins (a run comes to the head of sync_garmin_data) only
\* at the cron event, at a POST /sync that passed its signature check, or in
\* the task of a partner webhook whose event type is activity_created or
\* activity_updated; that task exists only for a partner POST that passed
\* its check, and with any other event type it ends without beginning a sync
\* and without writing; a request rejected as unauthorized and a GET of
\* /health or /status change no run, nor the watermark, the session blob
\* or the tables.
C13_TriggerGating ==
    [][/\ \A r \in Runs :
            (run'[r].pc = "auth" /\ run[r].pc # "auth")
            => \/ r = "scheduled" /\ ~Pending(run[r]) /\ http' = http
               \/ /\ r = "webhook" /\ ~Pending(run[r])
                  /\ Truthy(http'.request) /\ PassedSync(http'.request[1])
               \/ /\ r = "webhook" /\ run[r].pc = "webhook_json"
                  /\ run[r].event \in SyncEvents
       /\ \A r \in Runs :
            (run'[r].pc = "webhook_json" /\ run[r].pc # "webhook_json")
            => /\ r = "webhook" /\ ~Pending(run[r])
               /\ Truthy(http'.request) /\ PassedPartner(http'.request[1])
               /\ run'[r].event = http'.request[1].type
       /\ \A r \in Runs :
            (run[r].pc = "webhook_json" /\ run'[r] # run[r] /\ run[r].event \notin SyncEvents)
            => /\ run'[r].pc = "done" /\ run'[r].auth = "none"
               /\ UNCHANGED << kv_vars, db_vars >>
       /\ (http' # http /\ StartsNothing(http'.request[1]))
          => UNCHANGED << run, triggers, kv_vars, db_vars >>]_vars

\* the task of a partner webhook for a deleted activity has ended without a
\* sync, and a POST /sync without the configured signature was then rejected
C13_Witness ==
    /\ run["webhook"].pc = "done" /\ run["webhook"].auth = "none"
    /\ run["webhook"].result = "none"
    /\ run["webhook"].event = Some("activity_deleted")
    /\ http = Handled(Request("/sync", "POST", None, None),
                      Some(Response(401, "Unauthorized", None)))

RawReps0(set_data) ==
    IF set_data.repetitionCount = None THEN 0 ELSE set_data.repetitionCount[1]
RawKg(set_data) ==
    IF set_data.weight \in {None, Some(0)} THEN 0 ELSE RoundKg(set_data.weight[1])
\* the rows store_activity binds for one group of activity 1
GroupRows(exercise) ==
    [i \in 1..Len(exercise.sets) |-> SetRow([id |-> 1], exercise, i)]

\* C15: for every group process_exercise_sets returns, totalReps is the sum
\* of the raw sets' reps and totalVolume the sum of reps x kilograms (an
\* absent or zero weight counting 0); every row store_activity binds for a
\* set has total_volume = reps x weight (0 without a weight), and the row
\* volumes of a group add up to its totalVolume.
C15_AggregatesAreSums ==
    Truthy(processed_sets)
    => /\ Len(processed_sets[1]) = Len(exercise_sets)
       /\ \A g \in 1..Len(exercise_sets) :
            LET raw == exercise_sets[g].sets
                group == processed_sets[1][g]
                rows == GroupRows(group)
            IN  /\ Len(group.sets) = Len(raw) /\ Len(rows) = Len(raw)
                /\ group.totalReps = SumSeq([i \in 1..Len(raw) |-> RawReps0(raw[i])])
                /\ group.totalVolume =
                      SumSeq([i \in 1..Len(raw) |-> RawReps0(raw[i]) * RawKg(raw[i])])
                /\ \A i \in 1..Len(rows) :
                      /\ rows[i].set_number = i
                      /\ rows[i].total_volume = RawReps0(raw[i]) * RawKg(raw[i])
                /\ SumSeq([i \in 1..Len(rows) |-> rows[i].total_volume]) = group.totalVolume

\* the group of 5 reps at 10 kg and 3 reps without a weight: 8 reps, a volume
\* of 50 kg (5000 hundredths)
C15_Witness ==
    /\ exercise_sets =
          << RawGroup("squat", << RawSet(Some(5), Some(10000)), RawSet(Some(3), None) >>) >>
    /\ Truthy(processed_sets)
    /\ processed_sets[1][1].totalReps = 8
    /\ processed_sets[1][1].totalVolume = 5000

\* C16: process_exercise_sets gives a set with a raw weight the weight in
\* kilograms rounded to two decimals (a hundredth at most half a hundredth
\* from grams / 1000; 1000 g gives 1.00), and gives a set whose raw weight
\* is 0 or absent the weight None, which adds 0 to the volume.
C16_GramsToKilograms ==
    Truthy(processed_sets)
    => \A g \in 1..Len(exercise_sets) : \A i \in 1..Len(exercise_sets[g].sets) :
          LET raw == exercise_sets[g].sets[i]
              set == processed_sets[1][g].sets[i]
          IN  IF raw.weight \in {None, Some(0)}
              THEN set.weight = None /\ SetVolume(set) = 0
              ELSE /\ Truthy(set.weight)
                   /\ 10 * set.weight[1] - raw.weight[1] \in -5..5
                   /\ raw.weight = Some(1000) => set.weight = Some(100)

\* a set of 1000 g has become 1.00 kg next to a set of 0 g that has no weight
C16_Witness ==
    /\ exercise_sets =
          << RawGroup("squat", << RawSet(Some(3), Some(1000)), RawSet(Some(5), Some(0)) >>) >>
    /\ Truthy(processed_sets)
    /\ processed_sets[1][1].sets[1].weight = Some(100)
    /\ processed_sets[1][1].sets[2].weight = None
    /\ processed_sets[1][1].totalVolume = 300

\* C17: a first sync in which nothing fails stores a strength_training
\* activity whose set detail lookup returned nothing: it has an activities
\* row that carries the summary's totalReps and totalSets, it has no
\* exercise_sets rows, and it is counted in activitiesProcessed.
C17_EnrichmentDegradation ==
    \A r \in Runs :
        (reliable /\ triggers = MaxRuns - 1 /\ run[r].pc = "done")
        => \A i \in 1..Len(run[r].all_activities) :
              LET activity == RemoteItem(remote, run[r].all_activities[i])
                  id == activity.activityId[1]
              IN  (IsStrength(activity) /\ activity.remoteSets = <<>>)
                  => /\ id \in DOMAIN activities_table
                     /\ activities_table[id].totalReps = activity.totalReps
                     /\ activities_table[id].totalSets = activity.totalSets
                     /\ SetRowsOf(exercise_sets_table, id) = <<>>
                     /\ run[r].processed_count = Len(run[r].all_activities)

\* the remote activities that carry the id, and the set rows a complete
\* store of one of them leaves
RemoteWithId(id) ==
    {remote.items[i] : i \in {j \in 1..Len(remote.items) : remote.items[j].activityId = Some(id)}}
NewSetRows(id) ==
    {SetRows([id |-> id, exerciseSets |-> process_exercise_sets(activity.remoteSets)]) :
        activity \in RemoteWithId(id)}
InsideStore(id) ==
    \E r \in Runs : /\ run[r].pc \in {"store_delete", "store_set"}
                    /\ Current(run[r]).activityId = Some(id)
StoredIds ==
    DOMAIN activities_table
    \cup {exercise_sets_table[i].activity_id : i \in 1..Len(exercise_sets_table)}

BaseKeys ==
    {"id", "name", "type", "startTime", "duration", "movingTime", "calories",
     "averageHR", "maxHR", "distance", "averageSpeed", "maxSpeed",
     "elevationGain", "elevationLoss", "createdAt", "updatedAt"}
PowerKeys ==
    {"averagePower", "maxPower", "normalizedPower", "trainingStressScore",
     "averageCadence", "maxCadence"}
StrengthKeys == {"exerciseSets", "totalReps", "totalSets"}

\* C19: the record process_activity_data makes of the activity a run stores
\* has the base fields, has the power and cadence fields exactly when the
\* type is cycling, running or walking, and has the exercise-set list and
\* the totals only when the type is strength_training; and when nothing
\* fails, the step that stores it leaves an activities row for its id.
C19_TypeConditionalFields ==
    [][\A r \in Runs :
          (run[r].pc = "store" /\ run'[r] # run[r])
          => LET activity == Current(run[r])
                 type == activity.typeKey
             IN  /\ \A full \in {activity.remoteSets, <<>>} :
                       LET record == process_activity_data(activity, full, now)
                       IN  /\ BaseKeys \subseteq DOMAIN record
                           /\ (PowerKeys \subseteq DOMAIN record)
                              <=> type \in {Some("cycling"), Some("running"), Some("walking")}
                           /\ (PowerKeys \cap DOMAIN record = {})
                              \/ (PowerKeys \subseteq DOMAIN record)
                           /\ (StrengthKeys \cap DOMAIN record # {})
                              => type = Some("strength_training")
                 /\ reliable => activity.activityId[1] \in DOMAIN activities_table']_vars

\* no run is under way
Quiescent == \A r \in Runs : ~Pending(run[r])

\* C20: when nothing fails and every run has ended, every activity the
\* remote lists with a start at or before the stored watermark has an
\* activities row.
C20_WatermarkIsBoundary ==
    (reliable /\ Quiescent /\ Truthy(kv_lastSyncTime))
    => \A i \in 1..RemoteLen(remote) :
          LET activity == RemoteItem(remote, i)
          IN  (/\ activity.isDict /\ Truthy(activity.activityId)
               /\ Truthy(activity.startTimeLocal)
               /\ activity.startTimeLocal[1] <= kv_lastSyncTime[1])
              => activity.activityId[1] \in DOMAIN activities_table

\* the set a row of exercise_sets stands for
SetKey(row) == << row.activity_id, row.exercise_name, row.set_number >>

====
